---- MODULE Spec2Model ----
(***************************************************************************)
(* Franny browser: the synchronisation engine of FrannyBrowser             *)
(* (src/ui/main_window.py, perform_sync and its callers) and the           *)
(* SyncWorker that runs it on the global thread pool (src/sync/worker.py). *)
(*                                                                         *)
(* The control thread owns the window (history, sync flags, settings       *)
(* widgets, the auto-sync timer); every perform_sync call runs on a pool   *)
(* thread and is modelled one shared-state access per step, so that calls  *)
(* interleave with each other and with the control thread the way the      *)
(* threads of the program can.                                             *)
(***************************************************************************)
EXTENDS Integers, Sequences, FiniteSets, TLC

\* ------------------------------------------------------------------ bounds
\* Number of SyncWorker jobs handed to the pool in one behaviour.
MaxSubmits == 2
\* Number of disturbances in one behaviour: an I/O call that raises, a user
\* action (a page visit, a step in the settings dialog), or a job handed to
\* the pool while another perform_sync is running.
MaxEvents == 1
\* Scaled stand-in for the 500 of local_history[-500:] (main_window.py:933).
PushLimit == 2
\* Scaled stand-in for the 1000 of [-1000:] (main_window.py:966).
HistoryCap == 2
\* Longest local and remote collection the pull of SpecMerge starts from.
MaxLen == 3

\* last_sync = None (load_sync_settings, main_window.py:846); timestamps are >= 1.
NoTs == 0

\* ------------------------------------------------------------------ data
URLS == {"a", "b", "c"}
\* "" is the empty / absent passphrase.
Passphrases == {"p1", "p2"}
Directions == {"test", "push", "pull", "sync", "other"}
\* The pool threads that run SyncWorker jobs.
Threads == {1, 2}
\* The passphrase arguments of direct calls, the texts the user types into
\* sync_pass_input, and the pages visited while the model runs.
CallPassphrases == {"", "p1"}
TypedPassphrases == {"", "p1"}
VisitedURLS == {"c"}
StoreKeys == {"franny_sync_test", "bookmarks", "history"}

\* A SyncDocument as store.get returns it; present = FALSE is None.
NoDoc == [present |-> FALSE, ts |-> NoTs, data |-> <<>>]
Doc(t, d) == [present |-> TRUE, ts |-> t, data |-> d]

Range(s) == {s[i] : i \in 1..Len(s)}
Reverse(s) == [i \in 1..Len(s) |-> s[Len(s) + 1 - i]]
\* A slice that keeps everything.
AllOf(s, n) == s

\* Python s[-n:] for n >= 1.
LastN(s, n) == IF Len(s) <= n THEN s ELSE SubSeq(s, Len(s) - n + 1, Len(s))

\* list(dict.fromkeys(s)): first occurrence of each element, in order.
RECURSIVE Dedupe(_)
Dedupe(s) ==
    IF s = <<>> THEN <<>>
    ELSE LET r == Dedupe(SubSeq(s, 1, Len(s) - 1))
             x == s[Len(s)]
         IN  IF x \in Range(r) THEN r ELSE Append(r, x)

\* A merge that only concatenates.
MergeConcat(local, rb_data) == local \o rb_data

\* A merge that puts the remote bookmarks first.
MergeRemoteFirst(local, rb_data) == Dedupe(rb_data \o local)

\* main_window.py:946-947
merge_bookmarks(local, rb_data) == Dedupe(local \o rb_data)

\* A history merge that takes the remote entries for the older ones.
MergeRemoteOlder(local, rh_data, cap) ==
    LastN(Reverse(Dedupe(Reverse(rh_data \o local))), cap)

\* A history merge that is never cut.
MergeUncapped(local, rh_data, cap) == Reverse(Dedupe(Reverse(local \o rh_data)))

\* A history merge that keeps each URL where it occurs first.
MergeFirstWins(local, rh_data, cap) == LastN(Dedupe(local \o rh_data), cap)

\* main_window.py:958-966, with cap the number of entries kept
merge_history_cap(local, rh_data, cap) ==
    LastN(Reverse(Dedupe(Reverse(local \o rh_data))), cap)

merge_history(local, rh_data) == merge_history_cap(local, rh_data, HistoryCap)

\* ------------------------------------------------------------------ state
VARIABLES
    job,            \* per pool thread: the SyncWorker it runs, perform_sync's locals,
                    \* and the finished(ok, msg) signals emitted and not yet handled
    bookmarksFile,  \* BOOKMARKS_PATH
    historyFile,    \* HISTORY_PATH
    configFile,     \* SYNC_CONFIG_PATH
    history,        \* self.history
    sync_enabled,   \* self.sync_enabled
    last_sync,      \* self.last_sync
    hasKeyring,     \* _HAS_KEYRING
    keyring,        \* keyring entry ("franny_sync", user); "" is no entry
    ui,             \* the settings dialog's sync_enabled_cb and sync_pass_input
    autoTimer,      \* self._auto_sync_timer is set
    activeTimers,   \* number of QTimers that are running
    store,          \* ~/.franny_sync_store
    clock,          \* datetime.utcnow()
    submits, events \* budgets of the bounds above

fileVars == <<bookmarksFile, historyFile, configFile>>
memVars == <<history, sync_enabled, last_sync>>
envVars == <<hasKeyring, keyring, ui, autoTimer, activeTimers>>
vars == <<job, bookmarksFile, historyFile, configFile, history,
          sync_enabled, last_sync, hasKeyring, keyring, ui, autoTimer,
          activeTimers, store, clock, submits, events>>

\* A file written with open(path, "w"): "partial" between the truncation and
\* the close; openBy are the threads holding this inode open for writing.
FileOk(d) == [state |-> "ok", data |-> d, openBy |-> {}]

NoResult == [ok |-> FALSE, msg |-> ""]

IdleJob ==
    [pc |-> "idle", by |-> "", direction |-> "test", arg |-> "", passphrase |-> "",
     err |-> "", entry |-> [explicit |-> "", kr |-> "", ui |-> ""],
     kr |-> "", uitext |-> "", t0 |-> NoTs, now_ts |-> NoTs,
     local_bookmarks |-> <<>>, local_history |-> <<>>,
     val |-> NoDoc, remote_bookmarks |-> NoDoc, remote_history |-> NoDoc,
     merged_bookmarks |-> <<>>, merged_history |-> <<>>,
     cfg |-> [sync_enabled |-> FALSE, last_sync |-> NoTs],
     result |-> NoResult, ops |-> <<>>, signals |-> <<>>]

\* One entry of a call's record of what it did to the store, the files and
\* the window: op is "open", "set", "get", "write", "truncate" or "assign".
Op(o, k, t, d) == [op |-> o, key |-> k, ts |-> t, data |-> d]

EmptyStore == [exists |-> FALSE, pass |-> "", docs |-> [k \in StoreKeys |-> NoDoc]]
\* A store left by an earlier session (another device's push).
UsedStore ==
    [exists |-> TRUE, pass |-> "p1",
     docs |-> [k \in StoreKeys |->
                 IF k = "bookmarks" THEN Doc(NoTs, <<"b", "c">>)
                 ELSE IF k = "history" THEN Doc(NoTs, <<"c", "a">>)
                 ELSE NoDoc]]

InitBookmarks == {<<"a", "b">>}
InitHistory == {<<"a", "b", "a">>}

\* FrannyBrowser.__init__ (main_window.py:83-100): history and the sync
\* settings are loaded from their files; the timer runs iff sync is enabled.
Init ==
    /\ job = [t \in Threads |-> IdleJob]
    /\ \E b \in InitBookmarks : bookmarksFile = FileOk(b)
    /\ \E h \in InitHistory : history = h /\ historyFile = h
    /\ \E e \in BOOLEAN :
          /\ sync_enabled = e
          /\ configFile = [exists |-> TRUE, sync_enabled |-> e, last_sync |-> NoTs]
          /\ autoTimer = e
          /\ activeTimers = IF e THEN 1 ELSE 0
    /\ last_sync = NoTs
    /\ hasKeyring \in BOOLEAN
    /\ keyring \in (IF hasKeyring THEN {"p2"} ELSE {""})
    /\ ui = [present |-> FALSE, checked |-> FALSE, text |-> ""]
    /\ store \in {EmptyStore, UsedStore}
    /\ clock = 1
    /\ submits = 0 /\ events = 0

\* ------------------------------------------------------------------ faults
\* An I/O call either works or raises; a call that raises is a disturbance.
FaultChoices == IF events < MaxEvents THEN BOOLEAN ELSE {FALSE}
Faulted(f) == events' = IF f THEN events + 1 ELSE events

\* ------------------------------------------------------------------ SyncWorker
\* What self.fn(*args) did: kind is "tuple" (of len items, the first two ok
\* and msg), "other" (any other value) or "raise".
FnTuple(ok, msg) == [kind |-> "tuple", len |-> 2, ok |-> ok, msg |-> msg]
FnRaise == [kind |-> "raise", len |-> 0, ok |-> FALSE, msg |-> ""]

\* A run() without its except clause: an exception ends the thread silently.
RunUnguarded(o) ==
    IF o.kind = "raise" THEN <<>>
    ELSE IF o.kind = "tuple" /\ o.len >= 2 THEN <<[ok |-> o.ok, msg |-> o.msg]>>
    ELSE <<[ok |-> TRUE, msg |-> "Sync completed."]>>

\* SyncWorker.run (worker.py:17-26): the finished(ok, msg) signals it emits.
SyncWorkerRun(o) ==
    IF o.kind = "raise" THEN <<[ok |-> FALSE, msg |-> "Sync worker error"]>>
    ELSE IF o.kind = "tuple" /\ o.len >= 2 THEN <<[ok |-> o.ok, msg |-> o.msg]>>
    ELSE <<[ok |-> TRUE, msg |-> "Sync completed."]>>

\* The worker r after self.fn ended with outcome o: run() emits and ends.
Ended(r, o) == [r EXCEPT !.pc = "ended", !.signals = @ \o SyncWorkerRun(o)]

\* The control thread runs the connected slot (main_window.py:1014, 1043)
\* for one queued signal; the worker object is dropped after its last one.
Deliver(t) ==
    /\ job[t].pc = "ended"
    /\ job[t].signals # <<>>
    /\ job' = [job EXCEPT ![t] =
                 IF Len(@.signals) = 1 THEN IdleJob ELSE [@ EXCEPT !.signals = Tail(@)]]
    /\ UNCHANGED <<fileVars, memVars, envVars, store, clock, submits, events>>

\* ------------------------------------------------------------------ perform_sync
\* perform_sync returns (ok, msg) to SyncWorker.run.
Returned(r, ok, msg) ==
    Ended([r EXCEPT !.result = [ok |-> ok, msg |-> msg]], FnTuple(ok, msg))

\* An exception leaves perform_sync: what a perform_sync without its
\* outermost handler would do.
Raised(r) == Ended(r, FnRaise)

\* main_window.py:985-986: the outermost handler turns any exception into a result.
OuterExcept(r) == Returned(r, FALSE, "Unexpected sync error")

Logged(r, e) == [r EXCEPT !.ops = Append(@, e)]

\* _get_stored_passphrase (main_window.py:863-870): None on any exception.
get_stored_passphrase(f) == IF hasKeyring /\ ~f THEN keyring ELSE ""

\* A resolution that falls back on a built-in passphrase.
ResolveWithDefault(arg, krv, uiv) ==
    IF arg # "" THEN arg ELSE IF krv # "" THEN krv ELSE IF uiv # "" THEN uiv ELSE "p1"

\* main_window.py:889-892: explicit argument, then keyring, then the UI field.
ResolvePassphrase(arg, krv, uiv) ==
    IF arg # "" THEN arg ELSE IF krv # "" THEN krv ELSE uiv

\* What the three sources hold when an entry point resolves the passphrase:
\* the argument it was given, what the keyring lookup yields (nothing when
\* it raises), and the text of sync_pass_input.
SourcesNow(explicit, f) ==
    [explicit |-> explicit,
     kr |-> get_stored_passphrase(f),
     ui |-> IF ui.present THEN ui.text ELSE ""]

\* main_window.py:887-894
PSResolve(t) ==
    /\ job[t].pc = "resolve"
    /\ \E f \in FaultChoices :
          LET r == job[t]
              readsKr == r.arg = "" /\ hasKeyring
              krv == IF readsKr THEN get_stored_passphrase(f) ELSE ""
              readsUi == r.arg = "" /\ krv = "" /\ ui.present
              uiv == IF readsUi THEN ui.text ELSE ""
              p == ResolvePassphrase(r.arg, krv, uiv)
              r1 == [r EXCEPT !.t0 = clock, !.kr = krv, !.uitext = uiv,
                              !.passphrase = p,
                              !.entry = IF r.by = "call" THEN SourcesNow(r.arg, f) ELSE @]
          IN  /\ f => readsKr
              /\ Faulted(f)
              /\ job' = [job EXCEPT ![t] =
                           IF p = "" THEN Returned(r1, FALSE, "No sync passphrase provided.")
                           ELSE [r1 EXCEPT !.pc = "open"]]
    /\ UNCHANGED <<fileVars, memVars, envVars, store, clock, submits>>

\* SyncStore(store_path, passphrase): a store that exists opens only with the
\* passphrase it was created with; a missing store is created.
StoreOpens(p) == ~store.exists \/ store.pass = p
Opened(p) == IF store.exists THEN store ELSE [EmptyStore EXCEPT !.exists = TRUE, !.pass = p]
StoreSet(s, k, d) == [s EXCEPT !.docs[k] = d]
StoreGet(s, k) == s.docs[k]

\* The failure returns of lines 900 and 906, before the colon.
OpenFailures == {"Sync backend unavailable", "Failed to open SyncStore"}

\* The text of the exception e caught at line 899 or 905: a failed import, a
\* constructor that cannot read the store file, or one given a passphrase the
\* store was not created with.
OpenError(f, m) ==
    IF ~f THEN "wrong passphrase"
    ELSE IF m = "Sync backend unavailable" THEN "No module named crypto"
    ELSE "unreadable file"

\* A message that leaves the exception out.
Unformatted(prefix, e) == prefix

\* f"{prefix}: {e}" (main_window.py:900, 906)
Formatted(prefix, e) == prefix \o ": " \o e

\* main_window.py:896-906: the import, then the constructor; err keeps the
\* exception the call caught here.
PSOpen(t) ==
    /\ job[t].pc = "open"
    /\ \E f \in FaultChoices, m \in OpenFailures :
          LET r == job[t]
              e == OpenError(f, m)
          IN  /\ Faulted(f)
              /\ ~f => m = "Failed to open SyncStore"
              /\ IF f \/ ~StoreOpens(r.passphrase)
                 THEN /\ job' = [job EXCEPT ![t] =
                                   Returned([r EXCEPT !.err = e], FALSE, Formatted(m, e))]
                      /\ store' = store
                 ELSE /\ job' = [job EXCEPT ![t] =
                                   Logged([r EXCEPT !.pc = "load_bm"], Op("open", "", NoTs, <<>>))]
                      /\ store' = Opened(r.passphrase)
    /\ UNCHANGED <<fileVars, memVars, envVars, clock, submits>>

\* load_bookmarks (main_window.py:507-514): [] for a missing file and for one
\* json.load cannot parse.
load_bookmarks == IF bookmarksFile.state = "ok" THEN bookmarksFile.data ELSE <<>>

\* main_window.py:909; open() raising is caught by the outermost handler only.
PSLoadBookmarks(t) ==
    /\ job[t].pc = "load_bm"
    /\ \E f \in FaultChoices :
          /\ Faulted(f)
          /\ job' = [job EXCEPT ![t] =
                       IF f THEN OuterExcept(@)
                       ELSE [@ EXCEPT !.pc = "snapshot", !.local_bookmarks = load_bookmarks]]
    /\ UNCHANGED <<fileVars, memVars, envVars, store, clock, submits>>

\* A perform_sync whose "sync" starts with the pull block.
PullFirst(d) ==
    CASE d = "test" -> "test_set"
      [] d = "push" -> "push_bm"
      [] d \in {"pull", "sync"} -> "pull_bm"
      [] OTHER -> "set_last"

\* A perform_sync that takes an unknown direction for a pull.
UnknownPulls(d) ==
    CASE d = "test" -> "test_set"
      [] d \in {"push", "sync"} -> "push_bm"
      [] OTHER -> "pull_bm"

\* The branch taken after the snapshot, by direction (main_window.py:915, 929, 938).
AfterSnapshot(d) ==
    CASE d = "test" -> "test_set"
      [] d \in {"push", "sync"} -> "push_bm"
      [] d = "pull" -> "pull_bm"
      [] OTHER -> "set_last"

\* main_window.py:910-912
PSSnapshot(t) ==
    /\ job[t].pc = "snapshot"
    /\ job' = [job EXCEPT ![t] =
                 [@ EXCEPT !.pc = AfterSnapshot(job[t].direction),
                           !.local_history = history, !.now_ts = clock]]
    /\ clock' = clock + 1
    /\ UNCHANGED <<fileVars, memVars, envVars, store, submits, events>>

\* main_window.py:917; a store call runs on the store as it is on disk now.
PSTestSet(t) ==
    /\ job[t].pc = "test_set"
    /\ \E f \in FaultChoices :
          LET r == job[t]
              d == Doc(r.now_ts, <<>>)
          IN  /\ Faulted(f)
              /\ IF f
                 THEN /\ job' = [job EXCEPT ![t] = Returned(r, FALSE, "Sync test failed")]
                      /\ store' = store
                 ELSE /\ job' = [job EXCEPT ![t] =
                                   Logged([r EXCEPT !.pc = "test_get"],
                                          Op("set", "franny_sync_test", d.ts, d.data))]
                      /\ store' = StoreSet(store, "franny_sync_test", d)
    /\ UNCHANGED <<fileVars, memVars, envVars, clock, submits>>

\* main_window.py:919: `val and val.get("ts")`; a stored timestamp is a
\* non-empty string, so a document that is there passes.
ReadBackOk(r, val) == val.present

\* main_window.py:918-919, 924
PSTestGet(t) ==
    /\ job[t].pc = "test_get"
    /\ \E f \in FaultChoices :
          LET r == job[t]
              val == StoreGet(store, "franny_sync_test")
              r1 == Logged([r EXCEPT !.val = val],
                           Op("get", "franny_sync_test", val.ts, val.data))
          IN  /\ Faulted(f)
              /\ job' = [job EXCEPT ![t] =
                           IF f THEN Returned(r, FALSE, "Sync test failed")
                           ELSE IF ReadBackOk(r, val) THEN [r1 EXCEPT !.pc = "set_last"]
                           ELSE Returned(r1, FALSE, "Sync test failed: read-back mismatch.")]
    /\ UNCHANGED <<fileVars, memVars, envVars, store, clock, submits>>

\* A push of the whole history snapshot.
WholeHistory(local_history) == local_history

\* What push writes under "history" (main_window.py:933).
PushedHistory(local_history) == LastN(local_history, PushLimit)

\* main_window.py:932
PSPushBookmarks(t) ==
    /\ job[t].pc = "push_bm"
    /\ \E f \in FaultChoices :
          LET r == job[t]
              d == Doc(r.now_ts, r.local_bookmarks)
          IN  /\ Faulted(f)
              /\ IF f
                 THEN /\ job' = [job EXCEPT ![t] = Returned(r, FALSE, "Failed to push data")]
                      /\ store' = store
                 ELSE /\ job' = [job EXCEPT ![t] =
                                   Logged([r EXCEPT !.pc = "push_hist"],
                                          Op("set", "bookmarks", d.ts, d.data))]
                      /\ store' = StoreSet(store, "bookmarks", d)
    /\ UNCHANGED <<fileVars, memVars, envVars, clock, submits>>

\* After the push block: the pull block for "sync", else the success tail
\* (main_window.py:938, 977).
AfterPush(d) == IF d = "sync" THEN "pull_bm" ELSE "set_last"

\* main_window.py:933-935
PSPushHistory(t) ==
    /\ job[t].pc = "push_hist"
    /\ \E f \in FaultChoices :
          LET r == job[t]
              d == Doc(r.now_ts, PushedHistory(r.local_history))
          IN  /\ Faulted(f)
              /\ IF f
                 THEN /\ job' = [job EXCEPT ![t] = Returned(r, FALSE, "Failed to push data")]
                      /\ store' = store
                 ELSE /\ job' = [job EXCEPT ![t] =
                                   Logged([r EXCEPT !.pc = AfterPush(r.direction)],
                                          Op("set", "history", d.ts, d.data))]
                      /\ store' = StoreSet(store, "history", d)
    /\ UNCHANGED <<fileVars, memVars, envVars, clock, submits>>

\* main_window.py:940
PSPullBookmarks(t) ==
    /\ job[t].pc = "pull_bm"
    /\ \E f \in FaultChoices :
          LET r == job[t]
              d == StoreGet(store, "bookmarks")
          IN  /\ Faulted(f)
              /\ job' = [job EXCEPT ![t] =
                           IF f THEN Returned(r, FALSE, "Failed to pull data")
                           ELSE Logged([r EXCEPT !.pc = "pull_hist", !.remote_bookmarks = d],
                                       Op("get", "bookmarks", d.ts, d.data))]
    /\ UNCHANGED <<fileVars, memVars, envVars, store, clock, submits>>

\* main_window.py:941-947: the second read, then the bookmark merge.
PSPullHistory(t) ==
    /\ job[t].pc = "pull_hist"
    /\ \E f \in FaultChoices :
          LET r == job[t]
              d == StoreGet(store, "history")
          IN  /\ Faulted(f)
              /\ job' = [job EXCEPT ![t] =
                           IF f THEN Returned(r, FALSE, "Failed to pull data")
                           ELSE Logged([r EXCEPT !.pc = "bm_move", !.remote_history = d,
                                          !.merged_bookmarks =
                                              merge_bookmarks(r.local_bookmarks,
                                                              r.remote_bookmarks.data)],
                                       Op("get", "history", d.ts, d.data))]
    /\ UNCHANGED <<fileVars, memVars, envVars, store, clock, submits>>

\* A write that reports a failure and has replaced the destination all the same.
InterruptedCommits(old, new) == new

\* The destination after a write by temporary file and rename (main_window.py
\* :875-879, 968-972, 828-832) raised at any step up to the rename: the rename
\* has not happened, old is what the destination held and still holds.
Interrupted(old, new) == old

\* _atomic_write_json (main_window.py:873-879) at line 951: the temporary
\* file is private to the call; the rename replaces the destination at once.
PSAtomicWriteBookmarks(t) ==
    /\ job[t].pc = "bm_move"
    /\ \E f \in FaultChoices :
          LET r == job[t]
          IN  /\ Faulted(f)
              /\ IF f
                 THEN /\ job' = [job EXCEPT ![t] =
                                   Returned(r, FALSE, "Failed to write merged bookmarks")]
                      /\ bookmarksFile' = Interrupted(bookmarksFile, FileOk(r.merged_bookmarks))
                 ELSE /\ job' = [job EXCEPT ![t] =
                                   Logged([r EXCEPT !.pc = "bm_trunc"],
                                          Op("write", "bookmarks", NoTs, r.merged_bookmarks))]
                      /\ bookmarksFile' = FileOk(r.merged_bookmarks)
    /\ UNCHANGED <<historyFile, configFile, memVars, envVars, store, clock, submits>>

\* save_bookmarks (main_window.py:516-518) at line 953: open(path, "w")
\* empties the file in place.
PSSaveBookmarksOpen(t) ==
    /\ job[t].pc = "bm_trunc"
    /\ \E f \in FaultChoices :
          LET r == job[t]
          IN  /\ Faulted(f)
              /\ IF f
                 THEN /\ job' = [job EXCEPT ![t] =
                                   Returned(r, FALSE, "Failed to write merged bookmarks")]
                      /\ bookmarksFile' = bookmarksFile
                 ELSE /\ job' = [job EXCEPT ![t] =
                                   Logged([r EXCEPT !.pc = "bm_write"],
                                          Op("truncate", "bookmarks", NoTs, <<>>))]
                      /\ bookmarksFile' =
                            [state |-> "partial", data |-> <<>>,
                             openBy |-> bookmarksFile.openBy \cup {t}]
    /\ UNCHANGED <<historyFile, configFile, memVars, envVars, store, clock, submits>>

\* A json.dump whose text never reaches the file.
DumpLost(file, t, d) == [file EXCEPT !.openBy = @ \ {t}]

\* The file after thread t writes d through the descriptor it opened: a file
\* renamed over since is not reached; bytes written over a longer text leave
\* its tail, which no longer parses.
Dumped(file, t, d) ==
    IF t \notin file.openBy THEN file
    ELSE IF file.state = "ok" /\ Len(file.data) > Len(d)
         THEN [state |-> "partial", data |-> <<>>, openBy |-> file.openBy \ {t}]
         ELSE [state |-> "ok", data |-> d, openBy |-> file.openBy \ {t}]

\* The file after thread t's write fails half way and the descriptor is closed.
Closed(file, t) == [file EXCEPT !.openBy = @ \ {t}]

\* save_bookmarks (main_window.py:519), then the history merge (958-966).
PSSaveBookmarksDump(t) ==
    /\ job[t].pc = "bm_write"
    /\ \E f \in FaultChoices :
          LET r == job[t]
          IN  /\ Faulted(f)
              /\ IF f
                 THEN /\ job' = [job EXCEPT ![t] =
                                   Returned(r, FALSE, "Failed to write merged bookmarks")]
                      /\ bookmarksFile' = Closed(bookmarksFile, t)
                 ELSE /\ job' = [job EXCEPT ![t] =
                                   Logged([r EXCEPT !.pc = "hist_move",
                                             !.merged_history =
                                                 merge_history(r.local_history,
                                                               r.remote_history.data)],
                                          Op("write", "bookmarks", NoTs, r.merged_bookmarks))]
                      /\ bookmarksFile' = Dumped(bookmarksFile, t, r.merged_bookmarks)
    /\ UNCHANGED <<historyFile, configFile, memVars, envVars, store, clock, submits>>

\* main_window.py:967-972
PSWriteHistory(t) ==
    /\ job[t].pc = "hist_move"
    /\ \E f \in FaultChoices :
          LET r == job[t]
          IN  /\ Faulted(f)
              /\ IF f
                 THEN /\ job' = [job EXCEPT ![t] =
                                   Returned(r, FALSE, "Failed to write merged history")]
                      /\ historyFile' = Interrupted(historyFile, r.merged_history)
                 ELSE /\ job' = [job EXCEPT ![t] =
                                   Logged([r EXCEPT !.pc = "hist_assign"],
                                          Op("write", "history", NoTs, r.merged_history))]
                      /\ historyFile' = r.merged_history
    /\ UNCHANGED <<bookmarksFile, configFile, memVars, envVars, store, clock, submits>>

\* main_window.py:973
PSAssignHistory(t) ==
    /\ job[t].pc = "hist_assign"
    /\ job' = [job EXCEPT ![t] =
                 Logged([@ EXCEPT !.pc = "set_last"],
                        Op("assign", "history", NoTs, @.merged_history))]
    /\ history' = job[t].merged_history
    /\ UNCHANGED <<fileVars, sync_enabled, last_sync, envVars, store, clock, submits, events>>

\* main_window.py:921 and 978
PSSetLastSync(t) ==
    /\ job[t].pc = "set_last"
    /\ job' = [job EXCEPT ![t] =
                 Logged([@ EXCEPT !.pc = "cfg_read"],
                        Op("assign", "last_sync", @.now_ts, <<>>))]
    /\ last_sync' = job[t].now_ts
    /\ UNCHANGED <<fileVars, history, sync_enabled, envVars, store, clock, submits, events>>

\* save_sync_settings (main_window.py:823-826): the settings as the window
\* holds them when the call builds the document.
CurrentConfig == [sync_enabled |-> sync_enabled, last_sync |-> last_sync]

PSConfigRead(t) ==
    /\ job[t].pc = "cfg_read"
    /\ job' = [job EXCEPT ![t] = [@ EXCEPT !.pc = "cfg_move", !.cfg = CurrentConfig]]
    /\ UNCHANGED <<fileVars, memVars, envVars, store, clock, submits, events>>

\* A settings document that carries the stored passphrase as well.
SavedWithPassphrase(cfg) ==
    [exists |-> TRUE, sync_enabled |-> cfg.sync_enabled, last_sync |-> cfg.last_sync,
     passphrase |-> keyring]

\* The document of save_sync_settings (main_window.py:823-826) once moved to
\* the settings file (line 832).
SavedConfig(cfg) ==
    [exists |-> TRUE, sync_enabled |-> cfg.sync_enabled, last_sync |-> cfg.last_sync]

\* The message of the success return (main_window.py:923, 984).
SuccessMessage(d) ==
    IF d = "test" THEN "Sync test OK (local encrypted store)." ELSE "Sync completed."

\* The success return of lines 923 and 984.
Succeeded(r) == Returned(r, TRUE, SuccessMessage(r.direction))

\* A save_sync_settings that lets its exception out: line 922 is inside the
\* test block's try, line 980 inside its own.
SaveRaised(r) ==
    IF r.direction = "test" THEN Returned(r, FALSE, "Sync test failed") ELSE Succeeded(r)

\* save_sync_settings raised inside its try (main_window.py:833-834): the
\* exception is swallowed and the caller goes on to its success return.
SaveFailed(r) == Succeeded(r)

\* save_sync_settings (main_window.py:827-832), then the success return.
PSConfigMove(t) ==
    /\ job[t].pc = "cfg_move"
    /\ \E f \in FaultChoices :
          LET r == job[t]
              done == Succeeded(r)
          IN  /\ Faulted(f)
              /\ IF f
                 THEN /\ job' = [job EXCEPT ![t] = SaveFailed(r)]
                      /\ configFile' = Interrupted(configFile, SavedConfig(r.cfg))
                 ELSE /\ job' = [job EXCEPT ![t] =
                                   Logged(done, Op("write", "config", r.cfg.last_sync, <<>>))]
                      /\ configFile' = SavedConfig(r.cfg)
    /\ UNCHANGED <<bookmarksFile, historyFile, memVars, envVars, store, clock, submits>>

\* ------------------------------------------------------------------ submitting
PoolHasThread == \E t \in Threads : job[t].pc = "idle"
FreeThread == CHOOSE t \in Threads : job[t].pc = "idle" /\ \A u \in Threads : job[u].pc = "idle" => t <= u

\* Threads inside perform_sync.
Running == {t \in Threads : job[t].pc \notin {"idle", "ended"}}

\* pool.start(SyncWorker(self.perform_sync, passphrase, direction))
Started(p, d, by) ==
    [job EXCEPT ![FreeThread] =
       [IdleJob EXCEPT !.pc = "resolve", !.arg = p, !.direction = d, !.by = by]]

\* A job handed to the pool while another runs counts as one disturbance;
\* n is the number of calls that raise in the submitting handler.
Submitted(n) ==
    LET cost == n + (IF Running # {} THEN 1 ELSE 0)
    IN  /\ submits < MaxSubmits
        /\ PoolHasThread
        /\ events + cost <= MaxEvents
        /\ events' = events + cost
        /\ submits' = submits + 1

\* test_sync (main_window.py:988-1015) when it reaches pool.start.
TestSync ==
    /\ ui.present /\ ui.checked
    /\ \E fg \in BOOLEAN, fs \in BOOLEAN :
          LET readsKr == ui.text = "" /\ hasKeyring
              p == IF ui.text # "" THEN ui.text
                   ELSE IF readsKr THEN get_stored_passphrase(fg) ELSE ""
          IN  /\ fg => readsKr
              /\ fs => hasKeyring
              /\ p # ""
              /\ Submitted((IF fg THEN 1 ELSE 0) + (IF fs THEN 1 ELSE 0))
              /\ keyring' = IF hasKeyring /\ ~fs THEN p ELSE keyring
              /\ job' = [Started(p, "test", "test_sync") EXCEPT
                           ![FreeThread].entry = SourcesNow("", fg)]
    /\ UNCHANGED <<fileVars, memVars, hasKeyring, ui, autoTimer, activeTimers,
                   store, clock>>

\* A tick that looks for a passphrase without looking at the preference.
TickIgnoresFlag(enabled, p) == p # ""

\* The two early returns of _trigger_background_sync_if_enabled
\* (main_window.py:1032-1039): it goes on to pool.start when sync is enabled
\* and a passphrase p was found.
TickSubmits(enabled, p) == enabled /\ p # ""

\* _trigger_background_sync_if_enabled (main_window.py:1031-1044) on a
\* timeout of a running timer, when it reaches pool.start.
TriggerBackgroundSync ==
    /\ activeTimers > 0
    /\ \E fg \in BOOLEAN :
          LET uiv == IF ui.present THEN ui.text ELSE ""
              readsKr == uiv = "" /\ hasKeyring
              p == IF uiv # "" THEN uiv
                   ELSE IF readsKr THEN get_stored_passphrase(fg) ELSE ""
          IN  /\ fg => readsKr
              /\ TickSubmits(sync_enabled, p)
              /\ Submitted(IF fg THEN 1 ELSE 0)
              /\ job' = [Started(p, "sync", "timer") EXCEPT
                           ![FreeThread].entry = SourcesNow("", fg)]
    /\ UNCHANGED <<fileVars, memVars, envVars, store, clock>>

\* perform_sync(passphrase, direction) (main_window.py:881) run through a
\* SyncWorker with the caller's own arguments; such a caller makes one call
\* at a time, next to whatever test_sync and the timer have started.
PerformSyncCall(p, d) ==
    /\ \A t \in Running : job[t].by # "call"
    /\ Submitted(0)
    /\ job' = Started(p, d, "call")
    /\ UNCHANGED <<fileVars, memVars, envVars, store, clock>>

\* ------------------------------------------------------------------ control thread
\* update_history (main_window.py:441-447) with save_history (521-524).
UpdateHistory(u) ==
    /\ events < MaxEvents
    /\ events' = events + 1
    /\ history' = Append(history, u)
    /\ historyFile' = history'
    /\ UNCHANGED <<job, bookmarksFile, configFile, sync_enabled, last_sync, envVars,
                   store, clock, submits>>

\* show_settings (main_window.py:760-767), the first time: fresh widgets, the
\* box as the flag, and the user types p into the passphrase field.
ShowSettings(p) ==
    /\ ~ui.present
    /\ ui' = [present |-> TRUE, checked |-> sync_enabled, text |-> p]
    /\ UNCHANGED <<job, fileVars, memVars, hasKeyring, keyring, autoTimer,
                   activeTimers, store, clock, submits, events>>

\* The user clicks sync_enabled_cb.
ToggleSyncEnabled ==
    /\ events < MaxEvents
    /\ ui.present
    /\ events' = events + 1
    /\ ui' = [ui EXCEPT !.checked = ~@]
    /\ UNCHANGED <<job, fileVars, memVars, hasKeyring, keyring, autoTimer,
                   activeTimers, store, clock, submits>>

\* A start_auto_sync that arms a new timer and leaves the old one running.
StartStacks(ref, n) == n + 1

\* start_auto_sync (main_window.py:1017-1024): the running timers after it.
start_auto_sync(ref, n) == IF ref THEN n - 1 + 1 ELSE n + 1
\* stop_auto_sync (main_window.py:1026-1029)
stop_auto_sync(ref, n) == IF ref THEN n - 1 ELSE n

\* apply_settings (main_window.py:808-815)
ApplySettings ==
    /\ events < MaxEvents
    /\ ui.present
    /\ events' = events + 1
    /\ sync_enabled' = ui.checked
    /\ autoTimer' = ui.checked
    /\ activeTimers' = IF ui.checked THEN start_auto_sync(autoTimer, activeTimers)
                       ELSE stop_auto_sync(autoTimer, activeTimers)
    /\ \E f \in FaultChoices :
          /\ Faulted(f)
          /\ configFile' = IF f THEN Interrupted(configFile, SavedConfig([sync_enabled |-> ui.checked, last_sync |-> last_sync]))
                           ELSE SavedConfig([sync_enabled |-> ui.checked, last_sync |-> last_sync])
    /\ UNCHANGED <<job, bookmarksFile, historyFile, history, last_sync, hasKeyring,
                   keyring, ui, store, clock, submits>>

\* ------------------------------------------------------------------ specification
WorkerStep(t) ==
    \/ PSResolve(t) \/ PSOpen(t) \/ PSLoadBookmarks(t) \/ PSSnapshot(t)
    \/ PSTestSet(t) \/ PSTestGet(t)
    \/ PSPushBookmarks(t) \/ PSPushHistory(t)
    \/ PSPullBookmarks(t) \/ PSPullHistory(t)
    \/ PSAtomicWriteBookmarks(t) \/ PSSaveBookmarksOpen(t) \/ PSSaveBookmarksDump(t)
    \/ PSWriteHistory(t) \/ PSAssignHistory(t)
    \/ PSSetLastSync(t) \/ PSConfigRead(t) \/ PSConfigMove(t)

Next ==
    \/ \E t \in Threads : WorkerStep(t)
    \/ \E t \in Threads : Deliver(t)
    \/ TestSync
    \/ TriggerBackgroundSync
    \/ \E p \in CallPassphrases, d \in Directions : PerformSyncCall(p, d)
    \/ \E u \in VisitedURLS : UpdateHistory(u)
    \/ \E p \in TypedPassphrases : ShowSettings(p)
    \/ ToggleSyncEnabled
    \/ ApplySettings

Spec == Init /\ [][Next]_vars

\* ------------------------------------------------------------------ SyncWorker alone
\* SyncWorker with an arbitrary job function: what fn(*args) can do.
WorkerMessages == {"m1", "m2", "m3"}
WorkerFnOutcomes ==
    {[kind |-> "tuple", len |-> n, ok |-> b, msg |-> m] :
        n \in 0..3, b \in BOOLEAN, m \in WorkerMessages}
    \cup {[kind |-> "other", len |-> 0, ok |-> FALSE, msg |-> ""], FnRaise}

\* pool.start(SyncWorker(fn, *args))
WorkerStart(t) ==
    /\ job[t].pc = "idle"
    /\ submits < MaxSubmits
    /\ submits' = submits + 1
    /\ job' = [job EXCEPT ![t] = [IdleJob EXCEPT !.pc = "fn", !.by = "call"]]
    /\ UNCHANGED <<fileVars, memVars, envVars, store, clock, events>>

\* SyncWorker.run (worker.py:17-26) when fn ends with outcome o.
WorkerRun(t, o) ==
    /\ job[t].pc = "fn"
    /\ job' = [job EXCEPT ![t] = Ended(@, o)]
    /\ UNCHANGED <<fileVars, memVars, envVars, store, clock, submits, events>>

InitWorker == Init /\ ~sync_enabled /\ ~hasKeyring /\ store = EmptyStore

NextWorker ==
    \/ \E t \in Threads : WorkerStart(t)
    \/ \E t \in Threads, o \in WorkerFnOutcomes : WorkerRun(t, o)
    \/ \E t \in Threads : Deliver(t)

SpecWorker == InitWorker /\ [][NextWorker]_vars

\* ------------------------------------------------------------------ the periodic timer
\* start_auto_sync and stop_auto_sync called in any order, the timeouts of
\* the running timer and the jobs they start.
StartAutoSync ==
    /\ autoTimer' = TRUE
    /\ activeTimers' = start_auto_sync(autoTimer, activeTimers)
    /\ UNCHANGED <<job, fileVars, memVars, hasKeyring, keyring, ui, store, clock,
                   submits, events>>

StopAutoSync ==
    /\ autoTimer' = FALSE
    /\ activeTimers' = stop_auto_sync(autoTimer, activeTimers)
    /\ UNCHANGED <<job, fileVars, memVars, hasKeyring, keyring, ui, store, clock,
                   submits, events>>

InitTimer == Init

NextTimer ==
    \/ StartAutoSync
    \/ StopAutoSync
    \/ TriggerBackgroundSync
    \/ \E t \in Threads :
          \/ PSResolve(t) \/ PSOpen(t) \/ PSLoadBookmarks(t) \/ PSSnapshot(t)
          \/ PSPushBookmarks(t) \/ PSPushHistory(t)
          \/ PSPullBookmarks(t) \/ PSPullHistory(t)
          \/ PSAtomicWriteBookmarks(t) \/ PSSaveBookmarksOpen(t)
          \/ PSSaveBookmarksDump(t)
          \/ PSWriteHistory(t) \/ PSAssignHistory(t)
          \/ PSSetLastSync(t) \/ PSConfigRead(t) \/ PSConfigMove(t)
    \/ \E t \in Threads : Deliver(t)

SpecTimer == InitTimer /\ [][NextTimer]_vars

\* ------------------------------------------------------------------ the merges of pull
\* One pull, nothing failing and nothing else going on, from every local
\* collection and every store content up to MaxLen entries: the bookmarks
\* file and the history hold one sequence, the two store documents another.
SeqsUpTo(n) == UNION {[1..k -> URLS] : k \in 0..n}

MergeStore(remote) ==
    [exists |-> TRUE, pass |-> "p1",
     docs |-> [k \in StoreKeys |->
                 IF k \in {"bookmarks", "history"} THEN Doc(NoTs, remote) ELSE NoDoc]]

InitMerge ==
    /\ job = [t \in Threads |-> IdleJob]
    /\ \E local \in SeqsUpTo(MaxLen) :
          /\ bookmarksFile = FileOk(local)
          /\ history = local /\ historyFile = local
    /\ \E remote \in SeqsUpTo(MaxLen) : store = MergeStore(remote)
    /\ sync_enabled = FALSE
    /\ configFile = [exists |-> TRUE, sync_enabled |-> FALSE, last_sync |-> NoTs]
    /\ autoTimer = FALSE /\ activeTimers = 0
    /\ last_sync = NoTs
    /\ hasKeyring = FALSE /\ keyring = ""
    /\ ui = [present |-> FALSE, checked |-> FALSE, text |-> ""]
    /\ clock = 1
    /\ submits = MaxSubmits - 1 /\ events = MaxEvents

NextMerge ==
    \/ PerformSyncCall("p1", "pull")
    \/ \E t \in Threads :
          \/ PSResolve(t) \/ PSOpen(t) \/ PSLoadBookmarks(t) \/ PSSnapshot(t)
          \/ PSPullBookmarks(t) \/ PSPullHistory(t)
          \/ PSAtomicWriteBookmarks(t) \/ PSSaveBookmarksOpen(t) \/ PSSaveBookmarksDump(t)
          \/ PSWriteHistory(t) \/ PSAssignHistory(t)
          \/ PSSetLastSync(t) \/ PSConfigRead(t) \/ PSConfigMove(t)
    \/ \E t \in Threads : Deliver(t)

SpecMerge == InitMerge /\ [][NextMerge]_vars

\* ------------------------------------------------------------------ sync against a used store
\* perform_sync(direction=sync) with the passphrase of a store that another
\* session has pushed to: what the store held before the call is UsedStore.
InitSync == Init /\ store = UsedStore

NextSync ==
    \/ PerformSyncCall("p1", "sync")
    \/ \E t \in Threads :
          \/ PSResolve(t) \/ PSOpen(t) \/ PSLoadBookmarks(t) \/ PSSnapshot(t)
          \/ PSPushBookmarks(t) \/ PSPushHistory(t)
          \/ PSPullBookmarks(t) \/ PSPullHistory(t)
          \/ PSAtomicWriteBookmarks(t) \/ PSSaveBookmarksOpen(t)
          \/ PSSaveBookmarksDump(t)
          \/ PSWriteHistory(t) \/ PSAssignHistory(t)
          \/ PSSetLastSync(t) \/ PSConfigRead(t) \/ PSConfigMove(t)
    \/ \E t \in Threads : Deliver(t)

SpecSync == InitSync /\ [][NextSync]_vars

\* ------------------------------------------------------------------ properties
\* What a call did, read off its record.
Ops(t) == job[t].ops
OpsWhere(t, o, k) == {i \in 1..Len(Ops(t)) : Ops(t)[i].op = o /\ Ops(t)[i].key = k}
LocalOps(t) == {i \in 1..Len(Ops(t)) : Ops(t)[i].op \in {"write", "truncate", "assign"}}
HasReturned(t) == job[t].pc = "ended"
ReturnedOk(t) == HasReturned(t) /\ job[t].result.ok
ReturnedFailure(t) == HasReturned(t) /\ ~job[t].result.ok

\* C1: at no time are two perform_sync jobs executing at once; a job
\* submitted while another is running is rejected, not started next to it.
C1_SingleSyncInFlight == Cardinality(Running) <= 1

\* C2: two jobs submitted concurrently leave the local files as running them
\* one after the other would.  One after the other, each merging job starts
\* from the bookmarks the one before left and only adds to them, so once both
\* have returned success the bookmarks file is whole and holds every bookmark
\* either job read at its start.
C2_SerialBookmarks ==
    (\A t \in Threads : ReturnedOk(t) /\ job[t].direction \in {"pull", "sync"})
    => /\ bookmarksFile.state = "ok"
       /\ \A t \in Threads :
             Range(job[t].local_bookmarks) \subseteq Range(bookmarksFile.data)

\* C3: with no passphrase resolvable (empty argument, nothing from the
\* keyring, UI field empty or absent) perform_sync returns
\* (False, "No sync passphrase provided.") whatever the direction, and has
\* opened nothing, read or written nothing in the store, and changed no local
\* file and no last_sync.
NothingResolvable(t) ==
    /\ job[t].pc \notin {"idle", "resolve", "fn"}
    /\ job[t].arg = "" /\ job[t].kr = "" /\ job[t].uitext = ""

C3_NoPassphrase ==
    \A t \in Threads :
        NothingResolvable(t)
        => /\ HasReturned(t)
           /\ job[t].result = [ok |-> FALSE, msg |-> "No sync passphrase provided."]
           /\ Ops(t) = <<>>
           /\ submits = 1 =>
                 /\ store \in {EmptyStore, UsedStore}
                 /\ bookmarksFile \in {FileOk(b) : b \in InitBookmarks}
                 /\ last_sync = NoTs /\ configFile.last_sync = NoTs

\* A call that found the keyring failing and no settings dialog, asked to pull.
C3_Witness ==
    \E t \in Threads :
        /\ NothingResolvable(t) /\ HasReturned(t)
        /\ job[t].direction = "pull"
        /\ hasKeyring /\ events = 1 /\ submits = 1

\* C4: perform_sync never raises: whatever the direction and whatever call
\* fails, it ends by returning a (bool, message) pair, which is the one
\* result its worker reports.
C4_NeverRaises ==
    \A t \in Threads :
        HasReturned(t)
        => /\ job[t].result \in [ok : BOOLEAN, msg : STRING]
           /\ job[t].result.msg # ""
           /\ job[t].signals = <<job[t].result>>

\* load_bookmarks raised and only the outermost handler was there to catch it.
C4_Witness ==
    \E t \in Threads :
        /\ HasReturned(t)
        /\ job[t].result = [ok |-> FALSE, msg |-> "Unexpected sync error"]
        /\ OpsWhere(t, "open", "") # {}

\* C5: a job run by SyncWorker delivers exactly one finished(ok, msg) to its
\* consumer, whether its function returns a pair, anything else, or raises:
\* run() has emitted nothing before it ends and exactly one signal when it has.
C5_ExactlyOneFinished ==
    \A t \in Threads :
        /\ HasReturned(t) => Len(job[t].signals) = 1
        /\ ~HasReturned(t) => job[t].signals = <<>>

\* One worker whose function raised and one whose function returned no pair.
C5_Witness ==
    \E t, u \in Threads :
        /\ HasReturned(t) /\ job[t].signals = <<[ok |-> FALSE, msg |-> "Sync worker error"]>>
        /\ HasReturned(u) /\ job[u].signals = <<[ok |-> TRUE, msg |-> "Sync completed."]>>

\* C6: whenever perform_sync returns failure, at whatever point and also
\* after a push that worked, last_sync in memory and in the config file is
\* as it was before the call: the call has neither assigned last_sync nor
\* saved the settings, and where it is the only call made so far both still
\* hold the value they started with.
C6_FailureKeepsLastSync ==
    \A t \in Threads :
        ReturnedFailure(t)
        => /\ OpsWhere(t, "assign", "last_sync") = {}
           /\ OpsWhere(t, "write", "config") = {}
           /\ submits = 1 => last_sync = NoTs /\ configFile.last_sync = NoTs

\* A sync whose push worked and whose pull then failed.
C6_Witness ==
    \E t \in Threads :
        /\ ReturnedFailure(t)
        /\ job[t].direction = "sync"
        /\ job[t].result.msg = "Failed to pull data"
        /\ OpsWhere(t, "set", "history") # {}
        /\ submits = 1

\* C7: a test returns success only if the document it read back is the one
\* it had just written, with the same timestamp.
C7_TestReadBackMatches ==
    \A t \in Threads :
        (ReturnedOk(t) /\ job[t].direction = "test")
        => job[t].val = Doc(job[t].now_ts, <<>>)

\* C8: a test against a fresh store that opens returns success and sets
\* last_sync, in memory and through the config save on disk, to a timestamp
\* no earlier than the start of the call.
FreshStore ==
    /\ ~store.docs["bookmarks"].present
    /\ ~store.docs["history"].present

C8_TestSetsLastSync ==
    \A t \in Threads :
        (HasReturned(t) /\ job[t].direction = "test" /\ FreshStore
            /\ OpsWhere(t, "get", "franny_sync_test") # {})
        => /\ job[t].result.ok
           /\ \E i \in OpsWhere(t, "assign", "last_sync") : Ops(t)[i].ts >= job[t].t0
           /\ \E i \in OpsWhere(t, "write", "config") : Ops(t)[i].ts >= job[t].t0

\* C9: a successful push has written to the store, under "bookmarks", the
\* bookmarks it read at its start and, under "history", the last PushLimit
\* entries of its history snapshot in order (all of them if fewer), both with
\* the one timestamp of the call, and has not touched the local bookmarks and
\* history files; where it is the only call made so far, that is what the
\* store holds.
C9_PushWrites ==
    \A t \in Threads :
        (ReturnedOk(t) /\ job[t].direction = "push")
        => LET r == job[t]
               pushed == IF Len(r.local_history) <= PushLimit THEN r.local_history
                         ELSE [i \in 1..PushLimit |->
                                 r.local_history[Len(r.local_history) - PushLimit + i]]
               sets == {i \in 1..Len(r.ops) : r.ops[i].op = "set"}
           IN  /\ \E i, j \in sets :
                     /\ sets = {i, j} /\ i < j
                     /\ r.ops[i] = Op("set", "bookmarks", r.now_ts, r.local_bookmarks)
                     /\ r.ops[j] = Op("set", "history", r.now_ts, pushed)
               /\ r.now_ts >= r.t0
               /\ OpsWhere(t, "write", "bookmarks") = {}
               /\ OpsWhere(t, "truncate", "bookmarks") = {}
               /\ OpsWhere(t, "write", "history") = {}
               /\ submits = 1 =>
                     /\ store.docs["bookmarks"] = Doc(r.now_ts, r.local_bookmarks)
                     /\ store.docs["history"] = Doc(r.now_ts, pushed)
                     /\ bookmarksFile = FileOk(r.local_bookmarks)

\* A push of a history longer than PushLimit, a page having been visited
\* before the call.
C9_Witness ==
    \E t \in Threads :
        /\ ReturnedOk(t) /\ job[t].direction = "push"
        /\ Len(job[t].local_history) > PushLimit + 1
        /\ Len(store.docs["history"].data) = PushLimit
        /\ submits = 1

\* C10: within one sync call both store writes of the push come before any
\* store read of the pull, and a failed push means no pull: no store read
\* and no local write.
C10_PushBeforePull ==
    \A t \in Threads :
        job[t].direction = "sync"
        => /\ \A g \in OpsWhere(t, "get", "bookmarks") \cup OpsWhere(t, "get", "history")
                     \cup LocalOps(t) :
                 /\ \E i \in OpsWhere(t, "set", "bookmarks") : i < g
                 /\ \E i \in OpsWhere(t, "set", "history") : i < g
           /\ (HasReturned(t) /\ job[t].result.msg = "Failed to push data")
                 => /\ \A i \in 1..Len(Ops(t)) : Ops(t)[i].op \in {"open", "set"}
                    /\ submits = 1 => bookmarksFile \in {FileOk(b) : b \in InitBookmarks}

\* One sync whose second push write failed, and then one that went through
\* its push and its pull.
C10_Witness ==
    \E t, u \in Threads :
        /\ job[t].direction = "sync" /\ HasReturned(t)
        /\ job[t].result.msg = "Failed to push data"
        /\ OpsWhere(t, "set", "bookmarks") # {}
        /\ job[u].direction = "sync" /\ ReturnedOk(u)
        /\ OpsWhere(u, "get", "history") # {}

\* C11: a successful pull has read the two store documents, a missing one
\* counting as empty, and has written merge_bookmarks(bookmarks read at its
\* start, store bookmarks) to the bookmarks file and merge_history(history
\* snapshot, store history) to the history file and to self.history, and has
\* written nothing to the store; where nothing else has happened since the
\* program started, that is what the two files and self.history hold.
C11_PullWrites ==
    \A t \in Threads :
        (ReturnedOk(t) /\ job[t].direction = "pull")
        => LET r == job[t]
               mb == merge_bookmarks(r.local_bookmarks, r.remote_bookmarks.data)
               mh == merge_history(r.local_history, r.remote_history.data)
               at(o, k) == {r.ops[i] : i \in OpsWhere(t, o, k)}
           IN  /\ ~r.remote_bookmarks.present => r.remote_bookmarks.data = <<>>
               /\ ~r.remote_history.present => r.remote_history.data = <<>>
               /\ at("get", "bookmarks") =
                     {Op("get", "bookmarks", r.remote_bookmarks.ts, r.remote_bookmarks.data)}
               /\ at("get", "history") =
                     {Op("get", "history", r.remote_history.ts, r.remote_history.data)}
               /\ at("write", "bookmarks") = {Op("write", "bookmarks", NoTs, mb)}
               /\ at("write", "history") = {Op("write", "history", NoTs, mh)}
               /\ at("assign", "history") = {Op("assign", "history", NoTs, mh)}
               /\ \A i \in 1..Len(r.ops) : r.ops[i].op # "set"
               /\ (submits = 1 /\ events = 0) =>
                     /\ bookmarksFile = FileOk(mb)
                     /\ historyFile = mh
                     /\ history = mh
                     /\ store \in {UsedStore, [EmptyStore EXCEPT !.exists = TRUE,
                                                                !.pass = r.passphrase]}

\* A pull that found both documents and changed both collections.
C11_Witness ==
    \E t \in Threads :
        /\ ReturnedOk(t) /\ job[t].direction = "pull"
        /\ job[t].remote_bookmarks.present /\ job[t].remote_history.present
        /\ bookmarksFile = FileOk(<<"a", "b", "c">>)
        /\ history # job[t].local_history
        /\ submits = 1 /\ events = 0

\* C12: if opening the store fails, because the backend cannot be imported
\* or because the constructor raises (wrong passphrase, unreadable file),
\* perform_sync returns failure with a message that contains the text of the
\* exception, and has done no store get or set, no local write and no
\* last_sync update.
OpenFailed(t) == job[t].err # ""

C12_OpenFailure ==
    \A t \in Threads :
        OpenFailed(t)
        => /\ ReturnedFailure(t)
           /\ job[t].err \in {"wrong passphrase", "No module named crypto", "unreadable file"}
           /\ job[t].result.msg \in
                 {"Sync backend unavailable: " \o job[t].err,
                  "Failed to open SyncStore: " \o job[t].err}
           /\ Ops(t) = <<>>
           /\ submits = 1 =>
                 /\ store \in {EmptyStore, UsedStore}
                 /\ bookmarksFile \in {FileOk(b) : b \in InitBookmarks}
                 /\ last_sync = NoTs /\ configFile.last_sync = NoTs

\* A sync refused by a store created with another passphrase, after a call
\* whose import of the backend failed.
C12_Witness ==
    \E t, u \in Threads :
        /\ OpenFailed(t) /\ job[t].err = "wrong passphrase" /\ job[t].direction = "sync"
        /\ OpenFailed(u) /\ job[u].result.msg = "Sync backend unavailable: No module named crypto"

\* C13: the passphrase a sync uses is the first non-empty of: the explicit
\* argument, what the keyring lookup yields, the text of the UI field; and
\* this for a direct perform_sync call, for test_sync and for the timer tick.
FirstNonEmpty(e) ==
    IF e.explicit # "" THEN e.explicit ELSE IF e.kr # "" THEN e.kr ELSE e.ui

Resolved(t) == job[t].pc \notin {"idle", "resolve", "fn"}

C13_ResolutionOrder ==
    \A t \in Threads :
        Resolved(t) => job[t].passphrase = FirstNonEmpty(job[t].entry)

\* ------------------------------------------------------------------ the merges
\* The call has merged its bookmarks (line 947) / its history (line 966).
BookmarksMerged(t) == OpsWhere(t, "get", "history") # {}
HistoryMerged(t) ==
    \E i \in OpsWhere(t, "truncate", "bookmarks"), j \in OpsWhere(t, "write", "bookmarks") :
        i < j

FirstIdx(s, x) == CHOOSE i \in 1..Len(s) : s[i] = x /\ \A j \in 1..(i - 1) : s[j] # x
LastIdx(s, x) == CHOOSE i \in 1..Len(s) : s[i] = x /\ \A j \in (i + 1)..Len(s) : s[j] # x
NoDuplicates(s) == \A i, j \in 1..Len(s) : s[i] = s[j] => i = j

\* C14: the bookmark merge of pull gives local ++ remote with every URL kept
\* at its first occurrence only: no URL twice, every URL of either input,
\* in the order of first occurrence, so that local URLs come first in local
\* order and remote-only URLs follow in remote order; [a,b] with [b,c] is
\* [a,b,c].
C14_BookmarkMerge ==
    /\ merge_bookmarks(<<"a", "b">>, <<"b", "c">>) = <<"a", "b", "c">>
    /\ \A t \in Threads :
          BookmarksMerged(t)
          => LET A == job[t].local_bookmarks
                 B == job[t].remote_bookmarks.data
                 c == A \o B
                 m == job[t].merged_bookmarks
             IN  /\ NoDuplicates(m)
                 /\ Range(m) = Range(c)
                 /\ \A i, j \in 1..Len(m) : i < j => FirstIdx(c, m[i]) < FirstIdx(c, m[j])
                 /\ \A i, j \in 1..Len(m) :
                       (m[i] \notin Range(A) /\ m[j] \in Range(A)) => j < i

\* The pull of local [a,b] against remote [b,c], once it has written [a,b,c].
C14_Witness ==
    \E t \in Threads :
        /\ BookmarksMerged(t)
        /\ job[t].local_bookmarks = <<"a", "b">>
        /\ job[t].remote_bookmarks.data = <<"b", "c">>
        /\ bookmarksFile = FileOk(<<"a", "b", "c">>)

\* What C15 says of one merge of A with B that gave m.
SameContent(A, B, m) ==
    /\ NoDuplicates(m)
    /\ Range(A) \cup Range(B) \subseteq Range(m)
    /\ Range(m) = Range(merge_bookmarks(B, A))

LastOccurrences(c) ==
    LET K == {i \in 1..Len(c) : \A j \in (i + 1)..Len(c) : c[j] # c[i]}
        nth(k) == CHOOSE i \in K : Cardinality({j \in K : j <= i}) = k
    IN  [k \in 1..Cardinality(K) |-> c[nth(k)]]

\* The last cap entries of s, all of s if it has no more.
Newest(s, cap) ==
    IF Len(s) <= cap THEN s ELSE [k \in 1..cap |-> s[Len(s) - cap + k]]

\* C16: the history merge of pull gives local ++ remote with every URL kept
\* at its last occurrence only, in the order of those occurrences, cut to
\* the last cap entries; [x,y] with [y,z] is [x,y,z]; empty inputs and
\* repeats on the remote side only give a result like any other input.
C16_HistoryMerge ==
    /\ merge_history_cap(<<"x", "y">>, <<"y", "z">>, 10) = <<"x", "y", "z">>
    /\ merge_history_cap(<<>>, <<>>, 10) = <<>>
    /\ merge_history_cap(<<"x">>, <<"y", "y">>, 10) = <<"x", "y">>
    /\ \A t \in Threads :
          HistoryMerged(t)
          => LET c == job[t].local_history \o job[t].remote_history.data
             IN  /\ job[t].merged_history = Newest(LastOccurrences(c), HistoryCap)
                 /\ \A cap \in 1..(Len(c) + 1) :
                       merge_history_cap(job[t].local_history,
                                         job[t].remote_history.data, cap)
                         = Newest(LastOccurrences(c), cap)

\* A pull of local [a] against a remote history that repeats b, cut to the
\* two newest entries.
C16_Witness ==
    \E t \in Threads :
        /\ HistoryMerged(t)
        /\ job[t].local_history = <<"a">>
        /\ job[t].remote_history.data = <<"b", "b", "c">>
        /\ history = <<"b", "c">> /\ historyFile = <<"b", "c">>

\* C17 as stated: for every sequence X, merge_history([], X, cap) is X when
\* len(X) <= cap and the last cap entries of X when it is longer.
C17_EmptyLocalForAll ==
    \A t \in Threads :
        (HistoryMerged(t) /\ job[t].local_history = <<>>)
        => LET X == job[t].remote_history.data
           IN  /\ job[t].merged_history = Newest(X, HistoryCap)
               /\ \A cap \in 1..(Len(X) + 1) :
                     merge_history_cap(<<>>, X, cap) = Newest(X, cap)

\* C17, amended: for every X in which no URL repeats, merge_history([], X,
\* cap) is X when len(X) <= cap and the last cap entries of X when it is
\* longer; for an X with repeats it is the same of X with every URL kept at
\* its last occurrence only.
C17_EmptyLocalNoRepeats ==
    \A t \in Threads :
        (HistoryMerged(t) /\ job[t].local_history = <<>>)
        => LET X == job[t].remote_history.data
               U == LastOccurrences(X)
           IN  /\ NoDuplicates(X) => U = X
               /\ job[t].merged_history = Newest(U, HistoryCap)
               /\ \A cap \in 1..(Len(X) + 1) :
                     merge_history_cap(<<>>, X, cap) = Newest(U, cap)

\* An empty local history pulled against three different remote entries,
\* one more than the cap keeps.
C17_Witness ==
    \E t \in Threads :
        /\ HistoryMerged(t) /\ job[t].local_history = <<>>
        /\ NoDuplicates(job[t].remote_history.data)
        /\ Len(job[t].remote_history.data) = HistoryCap + 1
        /\ Len(historyFile) = HistoryCap
        /\ historyFile = SubSeq(job[t].remote_history.data, 2, HistoryCap + 1)

\* C18: whatever the inputs, a history merged by pull has at most cap
\* entries and bookmarks merged by pull have no URL twice, and so have the
\* history file and the bookmarks file a successful pull has written.
C18_MergeBounds ==
    \A t \in Threads :
        /\ BookmarksMerged(t) => NoDuplicates(job[t].merged_bookmarks)
        /\ HistoryMerged(t) => Len(job[t].merged_history) <= HistoryCap
        /\ (ReturnedOk(t) /\ job[t].direction = "pull")
              => /\ bookmarksFile.state = "ok"
                 /\ NoDuplicates(bookmarksFile.data)
                 /\ Len(historyFile) <= HistoryCap
                 /\ Len(history) <= HistoryCap

\* A successful pull of a local collection that repeats a URL, with more
\* different URLs on the two sides than the cap keeps.
C18_Witness ==
    \E t \in Threads :
        /\ ReturnedOk(t) /\ job[t].direction = "pull"
        /\ ~NoDuplicates(job[t].local_bookmarks)
        /\ Cardinality(Range(job[t].local_history \o job[t].remote_history.data))
              > HistoryCap
        /\ Len(historyFile) = HistoryCap
        /\ Len(bookmarksFile.data) >= 2

\* x comes before y in s; both occur in s.
Before(s, x, y) == LastIdx(s, x) < LastIdx(s, y)

\* The history merge of local with remote when the cap cuts nothing.
Uncut(local, remote) == merge_history_cap(local, remote, Len(local) + Len(remote) + 1)

\* C19 as stated: in the history merge a URL of local keeps its position
\* relative to the other URLs of local whatever remote holds; remote entries
\* move only URLs that do not occur in local; every repeated URL appears
\* once, at its most recent position in local ++ remote.
C19_LocalOrderKept ==
    \A t \in Threads :
        HistoryMerged(t)
        => LET A == job[t].local_history
               B == job[t].remote_history.data
               m == Uncut(A, B)
           IN  /\ \A x, y \in Range(A) : Before(m, x, y) <=> Before(Uncut(A, <<>>), x, y)
               /\ NoDuplicates(m)
               /\ \A x, y \in Range(m) : Before(m, x, y) <=> Before(A \o B, x, y)

\* C19, amended: a URL of local that does not occur in remote keeps its
\* position relative to the other such URLs and comes before every URL that
\* occurs in remote; the URLs that occur in remote come in the order of
\* their last occurrence in remote, whether or not local holds them; every
\* repeated URL appears once, at its most recent position in local ++ remote.
C19_LocalOnlyOrderKept ==
    \A t \in Threads :
        HistoryMerged(t)
        => LET A == job[t].local_history
               B == job[t].remote_history.data
               m == Uncut(A, B)
               localOnly == Range(A) \ Range(B)
           IN  /\ \A x, y \in localOnly : Before(m, x, y) <=> Before(Uncut(A, <<>>), x, y)
               /\ \A x \in localOnly, y \in Range(B) : Before(m, x, y)
               /\ \A x, y \in Range(B) : Before(m, x, y) <=> Before(B, x, y)
               /\ NoDuplicates(m)
               /\ Range(m) = Range(A \o B)
               /\ \A x, y \in Range(m) : Before(m, x, y) <=> Before(A \o B, x, y)
               /\ job[t].merged_history = Newest(m, HistoryCap)

\* Local [a,b] pulled against remote [a]: a, which local holds before b,
\* ends after it.
C19_Witness ==
    \E t \in Threads :
        /\ HistoryMerged(t)
        /\ job[t].local_history = <<"a", "b">>
        /\ job[t].remote_history.data = <<"a">>
        /\ job[t].merged_history = <<"b", "a">>
        /\ history = <<"b", "a">>

\* C20: no reader ever sees a partly written local file: at every point of
\* a pull or of a config save a read of the bookmarks file finds the whole
\* old or the whole new content, never an empty or cut file.  (Pull and
\* the config save replace the history and config files whole, by a rename.)
C20_NoPartialFile == bookmarksFile.state = "ok"

\* A lone call whose write by temporary file and rename has failed: the fault
\* is the only thing that happened next to the call.
FailedAtomicWrite(t) ==
    /\ HasReturned(t)
    /\ submits = 1 /\ events = 1
    /\ \/ /\ job[t].result.msg = "Failed to write merged bookmarks"
          /\ OpsWhere(t, "write", "bookmarks") = {}
       \/ job[t].result.msg = "Failed to write merged history"
       \/ /\ job[t].result.ok
          /\ OpsWhere(t, "write", "config") = {}

\* C21: a write by temporary file and rename (of the bookmarks, the history
\* or the sync config) that fails before the rename leaves the destination
\* holding exactly what it held before the write began.  The failing call is
\* the only thing that happened, so before the write the history file and
\* the config file held what they started with and the bookmarks file what
\* the call read.
C21_InterruptedWriteKeepsFile ==
    \A t \in Threads :
        FailedAtomicWrite(t)
        => /\ job[t].result.msg = "Failed to write merged bookmarks"
                => bookmarksFile = FileOk(job[t].local_bookmarks)
           /\ job[t].result.msg = "Failed to write merged history"
                => historyFile = job[t].local_history /\ historyFile \in InitHistory
           /\ job[t].result.ok
                => configFile = [exists |-> TRUE, sync_enabled |-> sync_enabled,
                                 last_sync |-> NoTs]

\* A pull whose write of the merged history failed.
C21_Witness ==
    \E t \in Threads :
        /\ FailedAtomicWrite(t)
        /\ job[t].result.msg = "Failed to write merged history"
        /\ job[t].merged_history # job[t].local_history

\* C22: after any sequence of start_auto_sync and stop_auto_sync calls at
\* most one timer runs, and it is the one the window refers to; a start
\* while a timer is armed leaves one timer running, and a stop with no timer,
\* or after a stop, changes nothing.
C22_AtMostOneTimer ==
    /\ activeTimers <= 1
    /\ autoTimer <=> activeTimers = 1
    /\ start_auto_sync(autoTimer, activeTimers) = 1
    /\ stop_auto_sync(autoTimer, activeTimers) = 0
    /\ stop_auto_sync(FALSE, stop_auto_sync(autoTimer, activeTimers))
          = stop_auto_sync(autoTimer, activeTimers)

\* A timer is armed, with sync disabled in the preferences: it was armed by
\* a call of start_auto_sync, not by the constructor.
C22_Witness == autoTimer /\ activeTimers = 1 /\ ~sync_enabled

\* The jobs started by the timer, and what a tick needs from the pool.
TimerJobs == {t \in Threads : job[t].pc # "idle" /\ job[t].by = "timer"}

FailedTimerJobs == {t \in TimerJobs : ReturnedFailure(t)}

CanSubmit ==
    /\ submits < MaxSubmits
    /\ PoolHasThread
    /\ Running # {} => events < MaxEvents

TickAfterFailure ==
    /\ TimerJobs # {} => sync_enabled
    /\ (/\ FailedTimerJobs # {}
        /\ sync_enabled /\ activeTimers > 0
        /\ hasKeyring /\ keyring # ""
        /\ CanSubmit)
       => ENABLED TriggerBackgroundSync

JobLeavesTimer ==
    (\E t \in TimerJobs : job'[t] # job[t])
    => UNCHANGED <<sync_enabled, autoTimer, activeTimers, hasKeyring, keyring>>

\* C23: a failed auto-sync job changes neither the enabled flag nor the
\* timer, and the tick goes on as before: with sync enabled, the timer
\* running and a passphrase in the keyring, the tick after a failure submits
\* a new sync job (where the pool and the budget of the model allow one),
\* and no job comes from a tick while sync is disabled.
C23_FailureKeepsAutoSync == []TickAfterFailure /\ [][JobLeavesTimer]_vars

\* The first job of the timer has failed and the next tick has submitted the
\* second one; nothing else happened.
C23_Witness ==
    /\ 1 \in FailedTimerJobs
    /\ 2 \in TimerJobs /\ job[2].pc = "resolve"
    /\ events = 0

\* The passphrases typed, stored or in use by a job.
SecretsInUse ==
    (Passphrases \cup {keyring, ui.text} \cup {job[t].passphrase : t \in Threads}
       \cup {job[t].arg : t \in Threads}) \ {""}

\* The strings in the three files; the values of the sync config are a
\* Boolean and a number.
PlaintextValues == Range(bookmarksFile.data) \cup Range(historyFile)

\* C24: the passphrase is never written to plaintext storage.  In every
\* reachable state the bookmarks file and the history file hold URLs only,
\* the sync config holds the enabled flag and last_sync and nothing else, no
\* passphrase that is typed, stored or in use by a job is among the values
\* of a file, and a passphrase is kept only in the keyring, where there is one.
C24_NoPlaintextPassphrase ==
    /\ Range(bookmarksFile.data) \subseteq URLS
    /\ Range(historyFile) \subseteq URLS
    /\ DOMAIN configFile = {"exists", "sync_enabled", "last_sync"}
    /\ configFile.sync_enabled \in BOOLEAN
    /\ configFile.last_sync \in Nat
    /\ PlaintextValues \cap SecretsInUse = {}
    /\ ~hasKeyring => keyring = ""

\* A typed passphrase has been stored in the keyring by test_sync, and the
\* job run with it has written the sync config.
C24_Witness ==
    /\ hasKeyring /\ keyring = "p1" /\ ui.text = "p1"
    /\ \E t \in Threads :
          /\ ReturnedOk(t)
          /\ job[t].passphrase = "p1"
          /\ OpsWhere(t, "write", "config") # {}
          /\ configFile.last_sync = job[t].now_ts

\* C25: the in-memory history and last_sync are changed by the control
\* thread only: no step of a perform_sync running on a pool thread, from its
\* start to its return, changes either of them.
C25_ControlThreadOnly ==
    [][(\E t \in Running : job'[t] # job[t]) => UNCHANGED <<history, last_sync>>]_vars

\* C26: a successful perform_sync(direction=sync) loses no remote data:
\* every URL of the store's "bookmarks" document before the call is in the
\* bookmarks file after it, and every URL of the store's "history" document
\* before the call is in the history after it, unless the cap has cut the
\* merged history.  The call is the only one and nothing failed.
C26_SyncKeepsRemote ==
    \A t \in Threads :
        (/\ ReturnedOk(t) /\ job[t].direction = "sync"
         /\ submits = 1 /\ events = 0)
        => /\ Range(StoreGet(UsedStore, "bookmarks").data)
                \subseteq Range(bookmarksFile.data)
           /\ \/ Range(StoreGet(UsedStore, "history").data) \subseteq Range(history)
              \/ Len(history) = HistoryCap

\* The URLs update_history has recorded since job t copied the history.
VisitedSince(t) == Range(history) \ Range(job[t].local_history)

\* C27: a URL recorded by update_history while a pull is in flight, after
\* the job copied the history, is kept by every later step of the job, in
\* the in-memory history and in the history file: the pull does not discard
\* a visit made during it.  The job is the only one submitted.
C27_VisitSurvivesPull ==
    [][\A t \in Running :
          (/\ submits = 1
           /\ job[t].direction \in {"pull", "sync"}
           /\ job[t].now_ts # NoTs
           /\ job'[t] # job[t])
          => \A u \in VisitedSince(t) :
                /\ u \in Range(history')
                /\ u \in Range(historyFile) => u \in Range(historyFile')]_vars

\* C28: a pull is all-or-nothing across the two collections: when
\* perform_sync(direction=pull or sync) returns failure, the bookmarks file,
\* the history file and the in-memory history hold what they held before the
\* call.  The call is the only one, it got as far as opening the store, and
\* what made it fail is the only other thing that happened.
C28_FailedPullChangesNothing ==
    \A t \in Threads :
        (/\ ReturnedFailure(t) /\ job[t].direction \in {"pull", "sync"}
         /\ OpsWhere(t, "open", "") # {}
         /\ submits = 1 /\ events = 1)
        => /\ bookmarksFile \in {FileOk(b) : b \in InitBookmarks}
           /\ historyFile \in InitHistory
           /\ history \in InitHistory

\* What a returned call t with a direction outside test, push, pull and sync
\* is said to have done: no store get or set, no write to the bookmarks or
\* history file or to the in-memory history, the return (True, "Sync
\* completed.") and its own timestamp assigned to last_sync; where it is the
\* only call, that is what last_sync holds.
UnknownDirectionDone(t) ==
    /\ \A i \in 1..Len(Ops(t)) :
          /\ Ops(t)[i].op \notin {"get", "set", "truncate"}
          /\ Ops(t)[i].op \in {"write", "assign"}
               => Ops(t)[i].key \notin {"bookmarks", "history"}
    /\ job[t].result = [ok |-> TRUE, msg |-> "Sync completed."]
    /\ job[t].now_ts >= job[t].t0
    /\ \E i \in OpsWhere(t, "assign", "last_sync") : Ops(t)[i].ts = job[t].now_ts
    /\ submits = 1
         => /\ last_sync = job[t].now_ts
            /\ bookmarksFile \in {FileOk(b) : b \in InitBookmarks}
            /\ events = 0 => historyFile \in InitHistory /\ history \in InitHistory

UnknownDirectionCalls ==
    {t \in Threads : /\ HasReturned(t)
                     /\ job[t].direction \notin {"test", "push", "pull", "sync"}
                     /\ OpsWhere(t, "open", "") # {}}

====
